---- MODULE Spec2Model ----
(***************************************************************************)
(* Model of unicampi/repositories/crawlers/base.py: the OnlineFilter query *)
(* filter, the ContentFinder text locator and the CrawlerRepository base   *)
(* class.                                                                  *)
(*                                                                         *)
(* Strings are sequences of atoms.  An atom is either the single character *)
(* "_", " " or "\n", or an underscore-free, blank-free word ("f", "in",     *)
(* "not", ...), so splitting on "__" and stripping blanks act on atoms      *)
(* exactly as they act on the characters of the Python string.             *)
(***************************************************************************)
EXTENDS Integers, Sequences, FiniteSets, TLC

VARIABLES
    query,        \* OnlineFilter.query: sequence of <<key, value>> in iteration order
    entries,      \* argument of the last OnlineFilter.commit call
    result,       \* outcome of the last OnlineFilter.commit call
    data,         \* ContentFinder.data
    split,        \* ContentFinder.split: the trimmed non-empty segments of data
    fc_args,      \* arguments of the find_by_content call
    fc_result,    \* outcome of the find_by_content call
    repo_query,   \* CrawlerRepository.query, set at construction
    required,     \* CrawlerRepository._required_querying_fields
    fetch_all_calls,  \* invocations of the hook _fetch_and_parse_all so far
    last          \* the last repository call: operation, id, what the hook did, outcome

filter_vars == <<query, entries, result>>
finder_vars == <<data, split, fc_args, fc_result>>
repo_vars == <<repo_query, required, fetch_all_calls, last>>
vars == <<filter_vars, finder_vars, repo_vars>>

---------------------------------------------------------------------------
(* Python values: None, an int, or a container (a frozenset of ints).      *)

None == [t |-> "none", n |-> 0, s |-> {}]
IntV(n) == [t |-> "int", n |-> n, s |-> {}]
SetV(s) == [t |-> "set", n |-> 0, s |-> s]

\* x == y
PyEq(x, y) == IF x = y THEN "True" ELSE "False"

\* x in c: a TypeError when c is not a container
PyIn(x, c) ==
    IF c.t # "set" THEN "TypeError"
    ELSE IF x.t = "int" /\ x.n \in c.s THEN "True" ELSE "False"

\* not r, an exception passing through
PyNot(r) ==
    IF r = "True" THEN "False" ELSE IF r = "False" THEN "True" ELSE r

\* dict.get(field): None when the key is absent
Get(entry, field) == IF field \in DOMAIN entry THEN entry[field] ELSE None

---------------------------------------------------------------------------
(* str.split('__') and '__'.join(parts)                                    *)

RECURSIVE SplitFrom(_, _, _, _)
SplitFrom(s, i, cur, acc) ==
    IF i > Len(s) THEN Append(acc, cur)
    ELSE IF i < Len(s) /\ s[i] = "_" /\ s[i + 1] = "_"
         THEN SplitFrom(s, i + 2, <<>>, Append(acc, cur))
         ELSE SplitFrom(s, i + 1, Append(cur, s[i]), acc)

Split(s) == SplitFrom(s, 1, <<>>, <<>>)

RECURSIVE Join(_)
Join(parts) ==
    IF Len(parts) = 0 THEN <<>>
    ELSE IF Len(parts) = 1 THEN parts[1]
    ELSE parts[1] \o <<"_", "_">> \o Join(Tail(parts))

---------------------------------------------------------------------------
(* OnlineFilter                                                            *)

op_equals(entry, field, value) == PyEq(Get(entry, field), value)
op_not_equals(entry, field, value) == PyNot(PyEq(Get(entry, field), value))
op_in(entry, field, value) == PyIn(Get(entry, field), value)
op_not_in(entry, field, value) == PyNot(PyIn(Get(entry, field), value))
op_contains(entry, field, value) == PyIn(value, Get(entry, field))
\* not_contains as the complement of contains
op_not_contains_complement(entry, field, value) == PyNot(PyIn(value, Get(entry, field)))
op_not_contains(entry, field, value) == PyIn(value, Get(entry, field))

VALID_OPERATORS ==
    { <<"equals">>, <<"not", "_", "equals">>, <<"in">>, <<"not", "_", "in">>,
      <<"contains">>, <<"not", "_", "contains">> }

\* VALID_OPERATORS[operator](entry, field, value)
ApplyOperator(operator, entry, field, value) ==
    CASE operator = <<"equals">> -> op_equals(entry, field, value)
      [] operator = <<"not", "_", "equals">> -> op_not_equals(entry, field, value)
      [] operator = <<"in">> -> op_in(entry, field, value)
      [] operator = <<"not", "_", "in">> -> op_not_in(entry, field, value)
      [] operator = <<"contains">> -> op_contains(entry, field, value)
      [] operator = <<"not", "_", "contains">> -> op_not_contains(entry, field, value)

\* resolution that takes the operator from the first '__' instead of the last
Resolve_first_split(key) ==
    LET parts == Split(key)
    IN  IF Len(parts) = 1
        THEN [field |-> Join(parts), operator |-> <<"equals">>]
        ELSE [field |-> parts[1], operator |-> Join(Tail(parts))]

\* lines 38-46: the (field, operator) a query key resolves to
Resolve(key) ==
    LET parts == Split(key)
    IN  IF Len(parts) = 1
        THEN [field |-> Join(parts), operator |-> <<"equals">>]
        ELSE [field |-> Join(SubSeq(parts, 1, Len(parts) - 1)),
              operator |-> parts[Len(parts)]]

\* what a call returns or raises: status is "ok" or the exception's type,
\* out the value returned, msg the exception's message
Returned(xs) == [status |-> "ok", out |-> xs, msg |-> <<>>]
Raised(e, m) == [status |-> e, out |-> <<>>, msg |-> m]

\* lines 35-53: the inner loop over the query items from item i on, for one
\* entry: "True" / "False" for `matches`, or the exception raised
RECURSIVE EvalQuery(_, _, _)
EvalQuery(q, i, entry) ==
    IF i > Len(q) THEN [matches |-> "True", exc |-> Returned(<<>>)]
    ELSE LET p == Resolve(q[i][1])
         IN  IF p.operator \notin VALID_OPERATORS
             THEN [matches |-> "raise",
                   exc |-> Raised("RuntimeError", <<"unknown operator">> \o p.operator)]
             ELSE LET matches == ApplyOperator(p.operator, entry, p.field, q[i][2])
                  IN  CASE matches = "True" -> EvalQuery(q, i + 1, entry)
                        [] matches = "False" -> [matches |-> "False", exc |-> Returned(<<>>)]
                        [] OTHER -> [matches |-> "raise",
                                     exc |-> Raised(matches, <<"not iterable">>)]

\* lines 34-57: the outer loop from entry i on
RECURSIVE CommitFrom(_, _, _, _)
CommitFrom(q, es, i, matched_entries) ==
    IF i > Len(es) THEN Returned(matched_entries)
    ELSE LET m == EvalQuery(q, 1, es[i])
         IN  CASE m.matches = "True" ->
                    CommitFrom(q, es, i + 1, Append(matched_entries, es[i]))
               [] m.matches = "False" -> CommitFrom(q, es, i + 1, matched_entries)
               [] OTHER -> m.exc

commit(q, es) == CommitFrom(q, es, 1, <<>>)


---------------------------------------------------------------------------
(* ContentFinder                                                           *)

Min(S) == CHOOSE x \in S : \A y \in S : x <= y
Max(S) == CHOOSE x \in S : \A y \in S : x >= y

Whitespace == { " ", "\n" }

\* str.split(separator) for a one-character separator: every occurrence
\* cuts, empty pieces are kept
RECURSIVE SplitOn(_, _, _, _, _)
SplitOn(s, separator, i, cur, acc) ==
    IF i > Len(s) THEN Append(acc, cur)
    ELSE IF s[i] = separator
         THEN SplitOn(s, separator, i + 1, <<>>, Append(acc, cur))
         ELSE SplitOn(s, separator, i + 1, Append(cur, s[i]), acc)

\* str.strip(): leading and trailing whitespace removed
RECURSIVE LStrip(_)
LStrip(s) ==
    IF Len(s) > 0 /\ s[1] \in Whitespace THEN LStrip(Tail(s)) ELSE s

RECURSIVE RStrip(_)
RStrip(s) ==
    IF Len(s) > 0 /\ s[Len(s)] \in Whitespace
    THEN RStrip(SubSeq(s, 1, Len(s) - 1)) ELSE s

Strip(s) == RStrip(LStrip(s))

\* line 63: [s.strip() for s in data.split(separator) if s.strip()]
Segments(d, separator) ==
    LET pieces == SplitOn(d, separator, 1, <<>>, <<>>)
        stripped == [i \in 1..Len(pieces) |-> Strip(pieces[i])]
    IN  SelectSeq(stripped, LAMBDA x : x # <<>>)

\* pattern in piece
Contains(pattern, piece) ==
    \E i \in 0..(Len(piece) - Len(pattern)) :
        SubSeq(piece, i + 1, i + Len(pattern)) = pattern

\* lines 67-70: a text pattern is left as it is (a byte pattern would be
\* decoded to the same characters)
Decode(pattern) == pattern

\* Python's s[lo:hi], with 0-based and negative indices
PySlice(s, lo, hi) ==
    LET n == Len(s)
        l == IF lo < 0 THEN (IF lo + n < 0 THEN 0 ELSE lo + n)
             ELSE (IF lo > n THEN n ELSE lo)
        h == IF hi < 0 THEN (IF hi + n < 0 THEN 0 ELSE hi + n)
             ELSE (IF hi > n THEN n ELSE hi)
    IN  SubSeq(s, l + 1, h)

\* lines 72-75: the 0-based indices the first loop may stop at
StartMatches(segs, pattern) ==
    { i \in 0..(Len(segs) - 1) : Contains(pattern, segs[i + 1]) }

\* start_at, when the loop binds it
StartAt(segs, pattern) == Min(StartMatches(segs, pattern))

\* lines 81-85: the indices the second loop may stop at
EndMatches(segs, start_at, end_pattern) ==
    { i \in start_at..(Len(segs) - 1) : Contains(end_pattern, segs[i + 1]) }

\* stopping at the last segment that holds end_pattern instead of the first
EndIdx_last(segs, start_at, end_pattern) == Max(EndMatches(segs, start_at, end_pattern))

\* end_idx, when the loop binds it
EndIdx(segs, start_at, end_pattern) == Min(EndMatches(segs, start_at, end_pattern))

\* a list of segments, or one segment, returned
ListResult(xs) == [status |-> "list", out |-> xs, msg |-> <<>>]
StrResult(x) == [status |-> "str", out |-> <<x>>, msg |-> <<>>]

\* truthiness of the optional arguments (lines 77 and 80)
CountTruthy(count) == count.given /\ count.n # 0
EndPatternTruthy(end_pattern) == end_pattern.given /\ end_pattern.s # <<>>

\* lines 65-90
find_by_content(segs, pattern0, offset, count, end_pattern) ==
    LET pattern == Decode(pattern0)
        bound == StartMatches(segs, pattern) # {}
        start_at == StartAt(segs, pattern)
    IN  IF CountTruthy(count)
        THEN IF ~bound THEN Raised("UnboundLocalError", <<"start_at">>)
             ELSE ListResult(PySlice(segs, start_at + offset, start_at + count.n))
        ELSE IF EndPatternTruthy(end_pattern)
        THEN IF ~bound THEN Raised("UnboundLocalError", <<"start_at">>)
             ELSE IF EndMatches(segs, start_at, end_pattern.s) = {}
                  THEN Raised("UnboundLocalError", <<"end_idx">>)
                  ELSE ListResult(PySlice(segs, start_at + offset,
                                          EndIdx(segs, start_at, end_pattern.s)))
        ELSE IF ~bound THEN Raised("UnboundLocalError", <<"start_at">>)
             ELSE LET i == start_at + offset
                      j == IF i < 0 THEN i + Len(segs) ELSE i
                  IN  IF j < 0 \/ j >= Len(segs) THEN Raised("IndexError", <<"list index out of range">>)
                      ELSE StrResult(segs[j + 1])


---------------------------------------------------------------------------
(* CrawlerRepository                                                       *)

\* the hook was not invoked
NotCalled == [status |-> "not called", out |-> <<>>, msg |-> <<>>]

QueryKeysOf(q) == { q[i][1] : i \in 1..Len(q) }

\* lines 102-106: TRUE when the check passes
assert_valid_query(q, req) == req \subseteq QueryKeysOf(q)

\* the query passed on whole, required keys included
new_query_keep_all(q, req) == q

\* lines 111-112: the items whose key is not a required field, in order
new_query(q, req) == SelectSeq(q, LAMBDA item : item[1] \notin req)

RequiredFieldsError == Raised("RuntimeError", <<"Offerings must be filtered by">>)

\* the entries are fetched before the query is checked
all_fetch_first(q, req, hook) ==
    IF ~assert_valid_query(q, req)
    THEN [calls |-> 1, hook |-> hook, result |-> RequiredFieldsError]
    ELSE IF hook.status # "ok"
    THEN [calls |-> 1, hook |-> hook, result |-> hook]
    ELSE [calls |-> 1, hook |-> hook, result |-> commit(new_query(q, req), hook.out)]

\* lines 108-113, `hook` being what _fetch_and_parse_all does when invoked:
\* the number of hook invocations, what the hook did, and the outcome
all(q, req, hook) ==
    IF ~assert_valid_query(q, req)
    THEN [calls |-> 0, hook |-> NotCalled, result |-> RequiredFieldsError]
    ELSE IF hook.status # "ok"
    THEN [calls |-> 1, hook |-> hook, result |-> hook]
    ELSE [calls |-> 1, hook |-> hook, result |-> commit(new_query(q, req), hook.out)]

\* line 118: the exception types the handler catches
CaughtByFind == { "IndexError", "KeyError", "UnboundLocalError" }

\* a handler that misses UnboundLocalError
find_without_unbound(id, hook) ==
    IF hook.status \in { "IndexError", "KeyError" }
    THEN Raised("KeyError", <<"unknown entry", id>>)
    ELSE hook

\* lines 115-119, `hook` being what _fetch_and_parse_one(id) does
find(id, hook) ==
    IF hook.status \in CaughtByFind
    THEN Raised("KeyError", <<"unknown entry", id>>)
    ELSE hook

---------------------------------------------------------------------------
(* Bounded inputs                                                          *)

MaxQuery == 2
MaxEntries == 2

F == <<"f">>
G == <<"g">>

Keys ==
    { F, G,
      <<"f", "_", "_", "equals">>, <<"f", "_", "_", "not", "_", "equals">>,
      <<"f", "_", "_", "in">>, <<"f", "_", "_", "not", "_", "in">>,
      <<"f", "_", "_", "contains">>, <<"f", "_", "_", "not", "_", "contains">>,
      <<"f", "_", "_", "bogus">>, <<"f", "_", "_", "g">>,
      <<"g", "_", "_", "f", "_", "_", "in">>,
      <<"f", "_", "_", "_", "in">>, <<"f", "_", "_">>, <<"f", "_", "in">> }

CoreKeys ==
    { F, G, <<"f", "_", "_", "in">>, <<"f", "_", "_", "not", "_", "equals">>,
      <<"f", "_", "_", "contains">>, <<"f", "_", "_", "not", "_", "contains">>,
      <<"f", "_", "_", "bogus">> }

QueryValues == { IntV(1), SetV({1}) }

Items == Keys \X QueryValues
CoreItems == CoreKeys \X { IntV(1) } \cup { <<<<"f", "_", "_", "in">>, SetV({1})>> }

RECURSIVE SeqsUpTo(_, _)
SeqsUpTo(S, n) ==
    IF n = 0 THEN { <<>> }
    ELSE LET shorter == SeqsUpTo(S, n - 1)
         IN  shorter \cup { Append(s, x) : s \in shorter, x \in S }

DistinctKeys(q) == \A i, j \in 1..Len(q) : q[i][1] = q[j][1] => i = j

\* single-item queries over every key, longer ones over the core keys
Queries ==
    { <<it>> : it \in Items }
    \cup { q \in SeqsUpTo(CoreItems, MaxQuery) : DistinctKeys(q) }

FieldValues == { IntV(1), IntV(2), SetV({1}), SetV({2}) }

\* records over the fields f and g; g, when present, holds the int 1
Entries ==
    { e \in UNION { [D -> FieldValues] : D \in SUBSET { F, G } } :
        G \in DOMAIN e => e[G] = IntV(1) }

EntrySeqs == SeqsUpTo(Entries, MaxEntries)

NoResult == [status |-> "none", out |-> <<>>, msg |-> <<>>]

MaxData == 5

Chars == { "a", "b", " ", "\n" }

DataSeqs == SeqsUpTo(Chars, MaxData)

Separators == { "\n" }

Absent == [given |-> FALSE, n |-> 0, s |-> <<>>]
Count(n) == [given |-> TRUE, n |-> n, s |-> <<>>]
Text(s) == [given |-> TRUE, n |-> 0, s |-> s]

Patterns == { <<"a">>, <<"b">>, <<"a", "b">> }
Offsets == { -1, 0, 1 }
Counts == { Absent } \cup { Count(n) : n \in { -1, 0, 1, 2 } }
EndPatterns == { Absent, Text(<<>>), Text(<<"b">>) }

FinderArgs ==
    [pattern : Patterns, offset : Offsets, count : Counts, end_pattern : EndPatterns]


---------------------------------------------------------------------------
(* Specification of the filter: a filter is constructed with a query      *)
(* (line 27) and committed once on a sequence of entries, as line 113 does. *)

MaxCalls == 2

RepoItems ==
    { <<F, IntV(1)>>, <<G, IntV(1)>>, <<<<"f", "_", "_", "in">>, SetV({1})>>,
      <<<<"f", "_", "_", "bogus">>, IntV(1)>> }

RepoQueries == { q \in SeqsUpTo(RepoItems, MaxQuery) : DistinctKeys(q) }

RequiredSets == SUBSET { F, G }

\* the entries a hook may fetch: f is 1 or 2, g is absent or, beside f = 1, 1
HookEntries ==
    { e \in Entries : /\ F \in DOMAIN e /\ e[F] \in { IntV(1), IntV(2) }
                      /\ G \in DOMAIN e => e[F] = IntV(1) }

\* what _fetch_and_parse_all may do: return a list of entries, or raise
\* (line 122 in the base class)
HookAllOutcomes ==
    { Returned(es) : es \in SeqsUpTo(HookEntries, MaxEntries) }
    \cup { Raised("NotImplementedError", <<>>) }

Ids == { "1", "2" }

\* what _fetch_and_parse_one may do: return an entry, or raise
HookOneOutcomes ==
    { Returned(<<e>>) : e \in HookEntries }
    \cup { Raised(x, <<"hook">>) :
            x \in { "IndexError", "KeyError", "UnboundLocalError",
                    "NotImplementedError", "LookupError", "ValueError" } }

NoCall == [op |-> "none", id |-> "", hook |-> NotCalled, result |-> NoResult]

FilterIdle == query = <<>> /\ entries = <<>> /\ result = NoResult

FinderIdle ==
    /\ data = <<>> /\ split = <<>>
    /\ fc_args = [pattern |-> <<>>, offset |-> 0, count |-> Absent, end_pattern |-> Absent]
    /\ fc_result = NoResult

RepoIdle ==
    /\ repo_query = <<>> /\ required = {}
    /\ fetch_all_calls = 0
    /\ last = NoCall

Init ==
    /\ query \in Queries
    /\ entries \in EntrySeqs
    /\ result = NoResult
    /\ FinderIdle
    /\ RepoIdle

Commit ==
    /\ result = NoResult
    /\ result' = commit(query, entries)
    /\ UNCHANGED <<query, entries, finder_vars, repo_vars>>

Next == Commit

Spec == Init /\ [][Next]_vars

---------------------------------------------------------------------------
(* Specification of the finder: a finder is constructed over a text        *)
(* (lines 61-63) and find_by_content is applied to it.                     *)

FinderInit ==
    /\ data \in DataSeqs
    /\ \E separator \in Separators : split = Segments(data, separator)
    /\ fc_args \in FinderArgs
    /\ fc_result = NoResult
    /\ FilterIdle
    /\ RepoIdle

FindByContent ==
    /\ fc_result = NoResult
    /\ fc_result' = find_by_content(split, fc_args.pattern, fc_args.offset,
                                    fc_args.count, fc_args.end_pattern)
    /\ UNCHANGED <<data, split, fc_args, filter_vars, repo_vars>>

FinderNext == FindByContent

FinderSpec == FinderInit /\ [][FinderNext]_vars

---------------------------------------------------------------------------
(* Specification of the repository: a repository is constructed with a     *)
(* query and its class's required fields; all() and find(id) are called in *)
(* any order, the hooks doing whatever a subclass may make them do.        *)

RepoInit ==
    /\ repo_query \in RepoQueries
    /\ required \in RequiredSets
    /\ fetch_all_calls = 0
    /\ last = NoCall
    /\ FilterIdle
    /\ FinderIdle

All ==
    /\ fetch_all_calls < MaxCalls
    /\ \E hook \in HookAllOutcomes :
        LET r == all(repo_query, required, hook)
        IN  /\ last' = [op |-> "all", id |-> "", hook |-> r.hook, result |-> r.result]
            /\ fetch_all_calls' = fetch_all_calls + r.calls
    /\ UNCHANGED <<repo_query, required, filter_vars, finder_vars>>

Find ==
    /\ \E id \in Ids, hook \in HookOneOutcomes :
        last' = [op |-> "find", id |-> id, hook |-> hook, result |-> find(id, hook)]
    /\ UNCHANGED <<repo_query, required, fetch_all_calls, filter_vars, finder_vars>>

RepoNext == All \/ Find

RepoSpec == RepoInit /\ [][RepoNext]_vars

---------------------------------------------------------------------------
(* Properties of OnlineFilter                                              *)

Committed == result # NoResult

QueryKeys == { query[i][1] : i \in 1..Len(query) }

\* x is a member of c, as a mathematical statement (no exception)
Member(x, c) == c.t = "set" /\ x.t = "int" /\ x.n \in c.s

\* the predicate an item of the query stands for, by the operator table
Holds(entry, item) ==
    LET p == Resolve(item[1])
        v == Get(entry, p.field)
    IN  CASE p.operator = <<"equals">> -> v = item[2]
          [] p.operator = <<"not", "_", "equals">> -> v # item[2]
          [] p.operator = <<"in">> -> Member(v, item[2])
          [] p.operator = <<"not", "_", "in">> -> ~Member(v, item[2])
          [] p.operator = <<"contains">> -> Member(item[2], v)
          [] p.operator = <<"not", "_", "contains">> -> Member(item[2], v)
          [] OTHER -> FALSE

HoldsAll(entry) == \A i \in 1..Len(query) : Holds(entry, query[i])

IsMembershipOnField(operator) ==
    operator \in { <<"contains">>, <<"not", "_", "contains">> }

IsMembershipOnTarget(operator) ==
    operator \in { <<"in">>, <<"not", "_", "in">> }

\* the operator table's side conditions: the target of in / not_in is a
\* container, and a field value that is present under contains /
\* not_contains is a container
TargetsSupportMembership ==
    \A i \in 1..Len(query) :
        IsMembershipOnTarget(Resolve(query[i][1]).operator) => query[i][2].t = "set"

PresentFieldsSupportMembership ==
    \A i \in 1..Len(query) : \A k \in 1..Len(entries) :
        LET p == Resolve(query[i][1])
        IN  (IsMembershipOnField(p.operator) /\ p.field \in DOMAIN entries[k])
                => entries[k][p.field].t = "set"

AllOperatorsSupported ==
    \A k \in QueryKeys : Resolve(k).operator \in VALID_OPERATORS

\* C1: for every query whose keys all resolve to supported operators and
\* every sequence of records, commit returns exactly the records for which
\* all predicates hold, in their original order (the identity for the empty
\* query).  Stated for inputs that meet the operator table's side
\* conditions on the values that are present.
C1_CommitReturnsConjunction ==
    (Committed /\ AllOperatorsSupported /\ TargetsSupportMembership
        /\ PresentFieldsSupportMembership)
    => result = Returned(SelectSeq(entries, HoldsAll))

\* C2: a query with at least one key whose operator is unsupported makes
\* commit fail with the 'unknown operator' error, for every sequence of
\* records (the empty one included) and wherever the key stands in the query.
C2_UnknownOperatorAlwaysRaises ==
    (Committed /\ ~AllOperatorsSupported)
    => result.status = "RuntimeError" /\ result.msg[1] = "unknown operator"

\* C8: for every supported operator, commit over records that lack the
\* queried field raises no exception.
C8_MissingFieldNeverRaises ==
    (Committed /\ Len(query) = 1 /\ AllOperatorsSupported /\ TargetsSupportMembership
        /\ \A k \in 1..Len(entries) : Resolve(query[1][1]).field \notin DOMAIN entries[k])
    => result.status = "ok"

\* the query with every not_contains key turned into the contains key of the
\* same field
AsContains(q) ==
    [i \in 1..Len(q) |->
        IF Resolve(q[i][1]).operator = <<"not", "_", "contains">>
        THEN <<Resolve(q[i][1]).field \o <<"_", "_", "contains">>, q[i][2]>>
        ELSE q[i]]

HasNotContains == \E k \in QueryKeys : Resolve(k).operator = <<"not", "_", "contains">>

\* C9: a not_contains filter returns exactly what the contains filter on the
\* same field and value returns: over records whose field values are
\* containers, the records whose field value has the target as a member.
C9_NotContainsIsContains ==
    (Committed /\ HasNotContains) =>
        /\ result = commit(AsContains(query), entries)
        /\ (Len(query) = 1 /\ PresentFieldsSupportMembership
                /\ \A k \in 1..Len(entries) : Resolve(query[1][1]).field \in DOMAIN entries[k])
            => result = Returned(SelectSeq(entries,
                                    LAMBDA e : query[1][2].t = "int"
                                        /\ query[1][2].n \in e[Resolve(query[1][1]).field].s))

\* a not_contains filter has run over containers with and without the target
C9_Witness ==
    /\ Committed /\ Len(query) = 1 /\ HasNotContains
    /\ PresentFieldsSupportMembership
    /\ result.status = "ok"
    /\ Len(entries) = 2 /\ Len(result.out) = 1

HasDunder(key) == \E i \in 1..(Len(key) - 1) : key[i] = "_" /\ key[i + 1] = "_"

HasTripleUnderscore(key) ==
    \E i \in 1..(Len(key) - 2) : key[i] = "_" /\ key[i + 1] = "_" /\ key[i + 2] = "_"

\* position of the last '__' of a key that has one
LastDunder(key) ==
    CHOOSE i \in 1..(Len(key) - 1) :
        /\ key[i] = "_" /\ key[i + 1] = "_"
        /\ \A j \in (i + 1)..(Len(key) - 1) : ~(key[j] = "_" /\ key[j + 1] = "_")

BeforeLastDunder(key) == SubSeq(key, 1, LastDunder(key) - 1)
AfterLastDunder(key) == SubSeq(key, LastDunder(key) + 2, Len(key))

\* C10 as stated: the segment after the last '__' is the operator if and
\* only if it names a supported operator; any other key is a field compared
\* with equals.
C10_OperatorIffKnown ==
    Committed => \A k \in QueryKeys :
        Resolve(k) =
            IF HasDunder(k) /\ AfterLastDunder(k) \in VALID_OPERATORS
            THEN [field |-> BeforeLastDunder(k), operator |-> AfterLastDunder(k)]
            ELSE [field |-> k, operator |-> <<"equals">>]

\* C10 amended: a key without '__' resolves to (key, equals); a key with
\* '__' always gives its last '__'-separated part as the operator name,
\* known or not, and the rest as the field, so field + '__' + operator is the
\* key; without a run of three underscores that is the text after and before
\* the last '__'.  commit raises 'unknown operator' exactly when the name a
\* key it evaluates resolves to is unsupported.
C10_ResolveLastPart ==
    /\ \A k \in QueryKeys :
        /\ ~HasDunder(k) => Resolve(k) = [field |-> k, operator |-> <<"equals">>]
        /\ HasDunder(k) =>
            /\ Resolve(k).field \o <<"_", "_">> \o Resolve(k).operator = k
            /\ ~HasDunder(Resolve(k).operator)
        /\ (HasDunder(k) /\ ~HasTripleUnderscore(k)) =>
            Resolve(k) = [field |-> BeforeLastDunder(k), operator |-> AfterLastDunder(k)]
    /\ (Committed /\ Len(query) = 1 /\ Len(entries) > 0) =>
        /\ result.status = "RuntimeError"
                <=> Resolve(query[1][1]).operator \notin VALID_OPERATORS
        /\ result.status = "RuntimeError"
                => result.msg = <<"unknown operator">> \o Resolve(query[1][1]).operator

\* commit has evaluated a key with an inner '__' and a supported operator
C10_Witness ==
    /\ Committed /\ Len(query) = 1 /\ Len(entries) > 0
    /\ query[1][1] = <<"g", "_", "_", "f", "_", "_", "in">>
    /\ result.status = "ok"

---------------------------------------------------------------------------
(* Properties of ContentFinder                                             *)

Called == fc_result # NoResult

PatternFound == \E i \in 1..Len(split) : Contains(fc_args.pattern, split[i])

\* index (0-based) of the first segment that contains the pattern
Anchor ==
    CHOOSE i \in 0..(Len(split) - 1) :
        /\ Contains(fc_args.pattern, split[i + 1])
        /\ \A j \in 0..(i - 1) : ~Contains(fc_args.pattern, split[j + 1])

EndFound ==
    \E i \in Anchor..(Len(split) - 1) : Contains(fc_args.end_pattern.s, split[i + 1])

\* index of the first segment at or after the anchor that contains end_pattern
FirstEnd ==
    CHOOSE i \in Anchor..(Len(split) - 1) :
        /\ Contains(fc_args.end_pattern.s, split[i + 1])
        /\ \A j \in Anchor..(i - 1) : ~Contains(fc_args.end_pattern.s, split[j + 1])

\* where a slice bound lands in a list of n elements
Clip(i, n) ==
    IF i < 0 THEN (IF i + n < 0 THEN 0 ELSE i + n) ELSE (IF i > n THEN n ELSE i)

\* the elements of the segment list at the 0-based indices lo <= i < hi
SliceOf(lo, hi) ==
    LET l == Clip(lo, Len(split))
        h == Clip(hi, Len(split))
        m == IF h > l THEN h - l ELSE 0
    IN  [k \in 1..m |-> split[l + k]]

\* C6: with a pattern some segment contains and any count that is supplied,
\* the result is the slice from anchor+offset to anchor+count, whatever
\* end_pattern is.
C6_CountGivenSlices ==
    (Called /\ PatternFound /\ fc_args.count.given)
    => fc_result = ListResult(SliceOf(Anchor + fc_args.offset, Anchor + fc_args.count.n))

\* C7 as stated: with no count, a pattern some segment contains and an
\* end_pattern some segment at or after the anchor contains, the result is
\* the slice from anchor+offset to the first such segment, which is excluded.
C7_EndPatternSlices ==
    (Called /\ ~fc_args.count.given /\ fc_args.end_pattern.given
        /\ PatternFound /\ EndFound)
    => /\ fc_result = ListResult(SliceOf(Anchor + fc_args.offset, FirstEnd))
       /\ (FirstEnd <= Anchor + fc_args.offset => fc_result.out = <<>>)

\* C7 amended: the same, for a non-empty end_pattern; every segment of the
\* result lies before the end segment.
C7_NonEmptyEndPatternSlices ==
    (Called /\ ~fc_args.count.given /\ fc_args.end_pattern.given
        /\ fc_args.end_pattern.s # <<>> /\ PatternFound /\ EndFound)
    => /\ fc_result = ListResult(SliceOf(Anchor + fc_args.offset, FirstEnd))
       /\ \A k \in 1..Len(fc_result.out) :
            Clip(Anchor + fc_args.offset, Len(split)) + k - 1 < FirstEnd
       /\ (FirstEnd <= Anchor + fc_args.offset => fc_result.out = <<>>)

\* a call with an end pattern that occurs twice after the anchor returned
\* the segments in between
C7_Witness ==
    /\ Called /\ ~fc_args.count.given /\ fc_args.end_pattern.given
    /\ fc_args.end_pattern.s # <<>> /\ PatternFound /\ EndFound
    /\ Len(fc_result.out) > 0
    /\ FirstEnd + 1 < Len(split)
    /\ Contains(fc_args.end_pattern.s, split[Len(split)])

---------------------------------------------------------------------------
(* Properties of CrawlerRepository                                         *)

RequiredPresent == required \subseteq QueryKeysOf(repo_query)

\* C3: when the required fields are not all keys of the query, all() fails
\* with the required-fields error at entry: the hook is not invoked and
\* nothing is filtered.
C3_RequiredFieldsCheckedAtEntry ==
    [][(last'.op = "all" /\ ~RequiredPresent)
        => /\ last'.result = RequiredFieldsError
           /\ last'.hook = NotCalled
           /\ fetch_all_calls' = fetch_all_calls]_vars

\* all() has failed on a query that lacks a required field and also holds an
\* unsupported operator
C3_Witness ==
    /\ last.op = "all" /\ ~RequiredPresent
    /\ fetch_all_calls = 0
    /\ last.result.status = "RuntimeError"
    /\ \E k \in QueryKeysOf(repo_query) : Resolve(k).operator \notin VALID_OPERATORS

\* the stored query without the items keyed by a required field
Remaining ==
    LET keep == { i \in 1..Len(repo_query) : repo_query[i][1] \notin required }
        \* the j-th kept position
        at[j \in 1..Cardinality(keep)] ==
            CHOOSE i \in keep : Cardinality({ x \in keep : x < i }) = j - 1
    IN  [j \in 1..Cardinality(keep) |-> repo_query[at[j]]]

\* C4: when every required field is a key of the query, all() invokes the
\* hook exactly once and returns what OnlineFilter(q').commit(entries)
\* returns, q' being the query without the required keys and entries the
\* hook's result; the stored query is unchanged.
C4_AllFiltersByRemainingQuery ==
    [][(last'.op = "all" /\ RequiredPresent)
        => /\ fetch_all_calls' = fetch_all_calls + 1
           /\ last'.hook # NotCalled
           /\ last'.hook.status = "ok"
                => last'.result = commit(Remaining, last'.hook.out)
           /\ repo_query' = repo_query]_vars

\* all() has returned an entry that fails the predicate of a required key
C4_Witness ==
    /\ last.op = "all" /\ RequiredPresent /\ required # {}
    /\ fetch_all_calls = 2
    /\ last.result.status = "ok"
    /\ \E k \in 1..Len(last.result.out) : \E i \in 1..Len(repo_query) :
        /\ repo_query[i][1] \in required
        /\ ~(Get(last.result.out[k], repo_query[i][1]) = repo_query[i][2])
    /\ Len(last.result.out) < Len(last.hook.out)

\* C5: find(id) returns the record the hook returns; an IndexError, KeyError
\* or UnboundLocalError of the hook becomes the same KeyError carrying the
\* id; any other error of the hook reaches the caller unchanged.
C5_FindUniformNotFound ==
    last.op = "find" =>
        /\ last.hook.status = "ok" => last.result = last.hook
        /\ last.hook.status \in { "IndexError", "KeyError", "UnboundLocalError" }
            => last.result = Raised("KeyError", <<"unknown entry", last.id>>)
        /\ last.hook.status \in { "NotImplementedError", "LookupError", "ValueError" }
            => last.result = last.hook

\* find has turned an UnboundLocalError of the hook into the not-found error
C5_Witness ==
    /\ last.op = "find" /\ last.hook.status = "UnboundLocalError"
    /\ last.result.status = "KeyError" /\ last.id = "2"

====
